---- MODULE Spec2Model ----
(***************************************************************************)
(* Model of insights/api/setup.py: the setup/onboarding procedures of the  *)
(* Insights application.  Persistent storage (the Settings singleton, the  *)
(* Data Source, Query and Dashboard tables, the Error Log), the job queue  *)
(* and the telemetry endpoint are the state; every procedure is one action *)
(* (one request is one isolated unit of work).  Calls into the framework   *)
(* that may fail (save, test_connection, json.dumps, the HTTP POST, the    *)
(* demo factory) take their outcome as an input of the action.             *)
(*                                                                         *)
(* Python values: every scalar is a string; None is the marker string      *)
(* "<None>", which no input uses as a value.  db.get(k) of an absent key   *)
(* and of a key holding null are both None.                                *)
(***************************************************************************)
EXTENDS Integers, Sequences, FiniteSets, TLC

VARIABLES
    settings_setup_complete, \* Insights Settings.setup_complete (0 or 1)
    completed,               \* history: a complete_setup() call has succeeded
    site_db_title,           \* title of the "Site DB" data source (None: no such record)
    demo_data,               \* the demo factory has generated its data
    queries,                 \* stored Insights Query records (titles, in creation order)
    dashboards,              \* stored Insights Dashboard records (titles, in creation order)
    demo_dashboard_exists,   \* local of the last import call (line 30)
    created,                 \* history: records the last import call saved
    error_log,               \* number of Error Log entries
    telemetry,               \* payloads delivered to the vendor endpoint
    data_sources,            \* stored Insights Data Source records; the name is the position
    sync_jobs,               \* enqueued table-sync jobs (data source names)
    op,                      \* the procedure called last
    ret,                     \* what it returned
    raised,                  \* whether it raised to its caller
    db,                      \* argument of the last direct get_new_datasource call
    ds                       \* record it returned

vars == <<settings_setup_complete, completed, site_db_title, demo_data, queries,
          dashboards, demo_dashboard_exists, created, error_log, telemetry, data_sources,
          sync_jobs, op, ret, raised, db, ds>>

None == "<None>"

\* ---------------------------------------------------------------- bounds
MaxSources == 2
MaxErrors == 2

\* ------------------------------------------------------- python helpers
\* Truth value of a Python object: None and the empty string are falsy.
Truthy(v) == v # None /\ v # ""

\* a or b
Or(a, b) == IF Truthy(a) THEN a ELSE b

\* bool(x) of the flag
Bool(x) == IF x # 0 THEN "True" ELSE "False"

\* ---------------------------------------------------------- frappe.scrub
\* The strings of the model, spelled out so that scrub works on characters.
Words == {"", "My DB", "my-db", "my_db", "mydb"}

Spell(s) ==
    CASE s = "" -> <<>>
      [] s = "My DB" -> <<"M", "y", " ", "D", "B">>
      [] s = "my-db" -> <<"m", "y", "-", "d", "b">>
      [] s = "my_db" -> <<"m", "y", "_", "d", "b">>
      [] s = "mydb" -> <<"m", "y", "d", "b">>

Text(chars) == CHOOSE s \in Words : Spell(s) = chars

UpperCase == <<"A", "B", "C", "D", "E", "F", "G", "H", "I", "J", "K", "L", "M",
               "N", "O", "P", "Q", "R", "S", "T", "U", "V", "W", "X", "Y", "Z">>
LowerCase == <<"a", "b", "c", "d", "e", "f", "g", "h", "i", "j", "k", "l", "m",
               "n", "o", "p", "q", "r", "s", "t", "u", "v", "w", "x", "y", "z">>

\* str.lower() of one character
Lower(c) ==
    IF \E i \in DOMAIN UpperCase : UpperCase[i] = c
    THEN LowerCase[CHOOSE i \in DOMAIN UpperCase : UpperCase[i] = c]
    ELSE c

\* .replace(" ", "_").replace("-", "_") of one character
Underscore(c) == IF c = " " \/ c = "-" THEN "_" ELSE c

\* cstr(txt): None becomes the empty string
Cstr(txt) == IF txt = None THEN "" ELSE txt

\* frappe.scrub(txt) == cstr(txt).replace(" ", "_").replace("-", "_").lower()
Scrub(txt) ==
    LET chars == Spell(Cstr(txt))
    IN Text([i \in DOMAIN chars |-> Lower(Underscore(chars[i]))])

\* --------------------------------------------------- get_new_datasource
Fields == {"title", "database_type", "connection_string", "database_name",
           "host", "port", "username", "password", "use_ssl"}

\* frappe.new_doc("Insights Data Source"): no field holds a value, none was set.
NewDoc == [val |-> [f \in Fields |-> None], set |-> {}]

\* Document.update(d): sets every key of d, to None too.
Update(doc, d) ==
    [val |-> [f \in Fields |-> IF f \in DOMAIN d THEN d[f] ELSE doc.val[f]],
     set |-> doc.set \cup DOMAIN d]

ConnectionStringBranch(doc, d) ==
    IF Truthy(d.connection_string)
    THEN Update(doc, [title |-> d.title,
                      database_type |-> d.type,
                      connection_string |-> d.connection_string])
    ELSE doc

ServerBranch(doc, d) ==
    IF d.type = "MariaDB" \/ d.type = "PostgreSQL"
    THEN Update(doc, [database_type |-> d.type,
                      database_name |-> d.name,
                      title |-> d.title,
                      host |-> d.host,
                      port |-> d.port,
                      username |-> d.username,
                      password |-> d.password,
                      use_ssl |-> d.useSSL])
    ELSE doc

\* Mutant: the title does not fall back to the name.
SQLiteBranch_no_title_fallback(doc, d) ==
    IF d.type = "SQLite"
    THEN Update(doc, [database_type |-> d.type,
                      title |-> d.title,
                      database_name |-> Or(d.name, Scrub(d.title))])
    ELSE doc

\* Mutant: the title is copied into database_name as it is.
SQLiteBranch_no_scrub(doc, d) ==
    IF d.type = "SQLite"
    THEN Update(doc, [database_type |-> d.type,
                      title |-> Or(d.title, d.name),
                      database_name |-> Or(d.name, d.title)])
    ELSE doc

SQLiteBranch(doc, d) ==
    IF d.type = "SQLite"
    THEN Update(doc, [database_type |-> d.type,
                      title |-> Or(d.title, d.name),
                      database_name |-> Or(d.name, Scrub(d.title))])
    ELSE doc

\* Mutant: the three branches chained with elif.
get_new_datasource_exclusive(d) ==
    IF Truthy(d.connection_string)
    THEN ConnectionStringBranch(NewDoc, d)
    ELSE SQLiteBranch(ServerBranch(NewDoc, d), d)

get_new_datasource(d) ==
    SQLiteBranch(ServerBranch(ConnectionStringBranch(NewDoc, d), d), d)

\* ---------------------------------------------------------------- inputs
Types == {None, "MariaDB", "PostgreSQL", "SQLite", "Oracle"}
DbInputs ==
    [type : Types,
     title : {None, "", "My DB", "my-db"},
     name : {None, "", "mydb"},
     connection_string : {None, "", "sqlite:///x.db"},
     host : {None, "localhost"},
     port : {None, "3306"},
     username : {None, "root"},
     password : {None, "secret"},
     useSSL : {None, "1"}]

BlankDb ==
    [type |-> None, title |-> None, name |-> None, connection_string |-> None,
     host |-> None, port |-> None, username |-> None, password |-> None,
     useSSL |-> None]

\* The databases the requests of the main specification submit.
SampleDatabases ==
    {[BlankDb EXCEPT !.type = "SQLite", !.title = "My DB"],
     [BlankDb EXCEPT !.type = "MariaDB", !.title = "my-db", !.name = "mydb",
                     !.host = "localhost"],
     [BlankDb EXCEPT !.type = "Oracle", !.connection_string = "sqlite:///x.db"]}

SiteTitles == {"Site DB", "ERP"}

\* The survey payloads: a JSON text, a text that is no JSON, a parsed mapping.
Payloads == {"json_text", "malformed_text", "mapping"}

\* The fixtures demo_queries.json and demo_dashboards.json (titles, in order).
DemoQueries == <<"Orders", "Customers">>
DemoDashboards == <<"eCommerce", "Sales">>

Range(s) == {s[i] : i \in DOMAIN s}

Min(a, b) == IF a < b THEN a ELSE b
Max(a, b) == IF a > b THEN a ELSE b

\* ------------------------------------------------------------ procedures
\* What the caller of a procedure sees.
Call(name, r, e) == op' = name /\ ret' = r /\ raised' = e

setup_complete ==
    /\ Call("setup_complete", Bool(settings_setup_complete), FALSE)
    /\ UNCHANGED <<settings_setup_complete, completed, site_db_title, demo_data,
                   queries, dashboards, demo_dashboard_exists, created, error_log,
                   telemetry, data_sources, sync_jobs, db, ds>>

\* frappe.db.set_value is an UPDATE by name: it changes the row when there is one.
update_erpnext_source_title(title) ==
    /\ site_db_title' = IF site_db_title = None THEN None ELSE title
    /\ Call("update_erpnext_source_title", None, FALSE)
    /\ UNCHANGED <<settings_setup_complete, completed, demo_data, queries,
                   dashboards, demo_dashboard_exists, created, error_log, telemetry,
                   data_sources, sync_jobs, db, ds>>

\* dataset is not read; factory_ok is whether DemoDataFactory().run() returns.
setup_sample_data(dataset, factory_ok) ==
    /\ demo_data' = (demo_data \/ factory_ok)
    /\ Call("setup_sample_data", None, ~factory_ok)
    /\ UNCHANGED <<settings_setup_complete, completed, site_db_title, queries,
                   dashboards, demo_dashboard_exists, created, error_log, telemetry,
                   data_sources, sync_jobs, db, ds>>

\* saved: how many records are saved before an exception ends the try block
\* (opening or loading a fixture, or a save, raised); all of them: no exception.
import_demo_queries_and_dashboards(saved) ==
    LET exists == "eCommerce" \in Range(dashboards)
        nq == Len(DemoQueries)
        nd == Len(DemoDashboards)
        failed == saved < nq + nd
    IN /\ error_log < MaxErrors
       /\ demo_dashboard_exists' = exists
       /\ IF exists
          THEN /\ created' = 0
               /\ UNCHANGED <<queries, dashboards, error_log>>
          ELSE /\ queries' = queries \o SubSeq(DemoQueries, 1, Min(saved, nq))
               /\ dashboards' = dashboards \o SubSeq(DemoDashboards, 1, Max(saved - nq, 0))
               /\ created' = saved
               /\ error_log' = IF failed THEN error_log + 1 ELSE error_log
       /\ Call("import_demo_queries_and_dashboards", None, FALSE)
       /\ UNCHANGED <<settings_setup_complete, completed, site_db_title, demo_data,
                      telemetry, data_sources, sync_jobs, db, ds>>

\* frappe.parse_json runs json.loads on a text, before the try block.
submit_survey_responses(responses, dumps_ok, post_ok) ==
    /\ error_log < MaxErrors
    /\ IF responses = "malformed_text"
       THEN /\ Call("submit_survey_responses", None, TRUE)
            /\ UNCHANGED <<telemetry, error_log>>
       ELSE /\ Call("submit_survey_responses", None, FALSE)
            /\ IF dumps_ok /\ post_ok
               THEN /\ telemetry' = telemetry \cup {responses}
                    /\ UNCHANGED error_log
               ELSE /\ error_log' = error_log + 1
                    /\ UNCHANGED telemetry
    /\ UNCHANGED <<settings_setup_complete, completed, site_db_title, demo_data,
                   queries, dashboards, demo_dashboard_exists, created,
                   data_sources, sync_jobs, db, ds>>

\* Mutant: the tested data source is saved.
test_database_connection_saving(database, test_ok) ==
    LET data_source == get_new_datasource(database)
    IN /\ Len(data_sources) < MaxSources
       /\ data_sources' = Append(data_sources, data_source.val)
       /\ Call("test_database_connection", IF test_ok THEN "True" ELSE None, ~test_ok)
       /\ UNCHANGED <<settings_setup_complete, completed, site_db_title, demo_data,
                      queries, dashboards, demo_dashboard_exists, created, error_log,
                      telemetry, sync_jobs, db, ds>>

\* test_ok: whether test_connection(raise_exception=True) returns.
test_database_connection(database, test_ok) ==
    LET data_source == get_new_datasource(database)
    IN /\ Call("test_database_connection", IF test_ok THEN "True" ELSE None, ~test_ok)
       /\ UNCHANGED <<settings_setup_complete, completed, site_db_title, demo_data,
                      queries, dashboards, demo_dashboard_exists, created, error_log,
                      telemetry, data_sources, sync_jobs, db, ds>>

\* Mutant: the sync job is enqueued before the save.
add_database_enqueue_first(database, save_ok) ==
    LET data_source == get_new_datasource(database)
        name == Len(data_sources) + 1
    IN /\ Len(data_sources) < MaxSources
       /\ sync_jobs' = sync_jobs \cup {name}
       /\ data_sources' = IF save_ok THEN Append(data_sources, data_source.val)
                          ELSE data_sources
       /\ Call("add_database", None, ~save_ok)
       /\ UNCHANGED <<settings_setup_complete, completed, site_db_title, demo_data,
                      queries, dashboards, demo_dashboard_exists, created, error_log,
                      telemetry, db, ds>>

\* save_ok: whether data_source.save() returns; the saved record is named by its
\* position in the table.
add_database(database, save_ok) ==
    LET data_source == get_new_datasource(database)
        name == Len(data_sources) + 1
    IN /\ Len(data_sources) < MaxSources
       /\ IF save_ok
          THEN /\ data_sources' = Append(data_sources, data_source.val)
               /\ sync_jobs' = sync_jobs \cup {name}
          ELSE UNCHANGED <<data_sources, sync_jobs>>
       /\ Call("add_database", None, ~save_ok)
       /\ UNCHANGED <<settings_setup_complete, completed, site_db_title, demo_data,
                      queries, dashboards, demo_dashboard_exists, created, error_log,
                      telemetry, db, ds>>

\* Mutant: the flag is set on the document and never saved.
complete_setup_unsaved(save_ok) ==
    /\ completed' = TRUE
    /\ Call("complete_setup", None, FALSE)
    /\ UNCHANGED <<settings_setup_complete, site_db_title, demo_data, queries,
                   dashboards, demo_dashboard_exists, created, error_log, telemetry,
                   data_sources, sync_jobs, db, ds>>

\* Mutant: the flag is toggled.
complete_setup_toggle(save_ok) ==
    /\ IF save_ok
       THEN /\ settings_setup_complete' = 1 - settings_setup_complete
            /\ completed' = (settings_setup_complete = 0)
       ELSE UNCHANGED <<settings_setup_complete, completed>>
    /\ Call("complete_setup", None, ~save_ok)
    /\ UNCHANGED <<site_db_title, demo_data, queries, dashboards,
                   demo_dashboard_exists, created, error_log, telemetry, data_sources,
                   sync_jobs, db, ds>>

\* save_ok: whether settings.save() returns.
complete_setup(save_ok) ==
    /\ IF save_ok
       THEN settings_setup_complete' = 1 /\ completed' = TRUE
       ELSE UNCHANGED <<settings_setup_complete, completed>>
    /\ Call("complete_setup", None, ~save_ok)
    /\ UNCHANGED <<site_db_title, demo_data, queries, dashboards,
                   demo_dashboard_exists, created, error_log, telemetry, data_sources,
                   sync_jobs, db, ds>>

\* A direct call of the helper on db.
BuildDataSource ==
    /\ op = "init"
    /\ ds' = get_new_datasource(db)
    /\ Call("get_new_datasource", None, FALSE)
    /\ UNCHANGED <<settings_setup_complete, completed, site_db_title, demo_data,
                   queries, dashboards, demo_dashboard_exists, created, error_log,
                   telemetry, data_sources, sync_jobs, db>>

\* -------------------------------------------------------- specifications
\* A fresh installation: nothing stored but the Settings singleton.
Fresh ==
    /\ settings_setup_complete = 0
    /\ completed = FALSE
    /\ demo_data = FALSE
    /\ demo_dashboard_exists = FALSE
    /\ created = 0
    /\ error_log = 0
    /\ telemetry = {}
    /\ data_sources = <<>>
    /\ sync_jobs = {}
    /\ op = "init"
    /\ ret = None
    /\ raised = FALSE
    /\ ds = NewDoc

Init ==
    /\ Fresh
    /\ site_db_title \in {None, "Site DB"}
    /\ queries = <<>>
    /\ dashboards = <<>>
    /\ db = BlankDb

\* The seven remote-callable procedures, in any order.
Next ==
    \/ setup_complete
    \/ \E title \in SiteTitles : update_erpnext_source_title(title)
    \/ \E dataset \in {None, "ecommerce"}, ok \in BOOLEAN : setup_sample_data(dataset, ok)
    \/ \E r \in Payloads, d \in BOOLEAN, p \in BOOLEAN : submit_survey_responses(r, d, p)
    \/ \E d \in SampleDatabases, ok \in BOOLEAN : test_database_connection(d, ok)
    \/ \E d \in SampleDatabases, ok \in BOOLEAN : add_database(d, ok)
    \/ \E ok \in BOOLEAN : complete_setup(ok)

Spec == Init /\ [][Next]_vars

\* The demo import, on installations that hold dashboards and queries already.
InitImport ==
    /\ Fresh
    /\ site_db_title = "Site DB"
    /\ queries \in {<<>>, <<"Leads">>}
    /\ dashboards \in {<<>>, <<"KPIs">>, <<"eCommerce">>}
    /\ db = BlankDb

NextImport ==
    \/ \E saved \in 0..(Len(DemoQueries) + Len(DemoDashboards)) :
           import_demo_queries_and_dashboards(saved)
    \/ \E dataset \in {None, "ecommerce"}, ok \in BOOLEAN : setup_sample_data(dataset, ok)

SpecImport == InitImport /\ [][NextImport]_vars

\* get_new_datasource on every input mapping.
InitDataSource ==
    /\ Fresh
    /\ site_db_title = "Site DB"
    /\ queries = <<>>
    /\ dashboards = <<>>
    /\ db \in DbInputs

NextDataSource == BuildDataSource

SpecDataSource == InitDataSource /\ [][NextDataSource]_vars

\* ------------------------------------------------------------------ claims
\* C1: setup_complete() returns false on a fresh Settings singleton, and true in
\* every call made after a complete_setup() call has succeeded.
C1_SetupCompleteFollowsCompletion ==
    op = "setup_complete" =>
        /\ ~raised
        /\ ret = IF completed THEN "True" ELSE "False"

C1_Witness == op = "setup_complete" /\ completed /\ ret = "True"

\* C2: the flag only changes from 0 to 1, only in complete_setup(), whatever the
\* order of the seven procedures.
C2_FlagOneWay ==
    [][settings_setup_complete' # settings_setup_complete =>
          /\ settings_setup_complete = 0
          /\ settings_setup_complete' = 1
          /\ op' = "complete_setup"]_vars

C2_Witness ==
    settings_setup_complete = 1 /\ op = "add_database" /\ Len(data_sources) = MaxSources

\* The field mapping of the three branches.
ConnectionStringFields == {"title", "database_type", "connection_string"}
ServerFields == {"database_type", "database_name", "title", "host", "port", "username",
                 "password", "use_ssl"}
SQLiteFields == {"database_type", "title", "database_name"}

MappedFields(with_connection_string, type) ==
    (IF with_connection_string THEN ConnectionStringFields ELSE {})
    \cup (IF type \in {"MariaDB", "PostgreSQL"} THEN ServerFields ELSE {})
    \cup (IF type = "SQLite" THEN SQLiteFields ELSE {})

\* C3 as stated: get_new_datasource sets exactly the fields of the branches its
\* input matches, the first branch being matched by a connection_string that is
\* present.
C3_FieldsOfPresentConnectionString ==
    op = "get_new_datasource" =>
        ds.set = MappedFields(db.connection_string # None, db.type)

\* C3 as amended: get_new_datasource sets exactly the fields of the branches its
\* input matches, the first branch being matched by a connection_string that is
\* present and not empty.
C3_FieldsOfNonEmptyConnectionString ==
    op = "get_new_datasource" =>
        ds.set = MappedFields(Truthy(db.connection_string), db.type)

C3_Witness ==
    /\ op = "get_new_datasource"
    /\ Truthy(db.connection_string)
    /\ db.type = "SQLite"
    /\ ds.set = ConnectionStringFields \cup SQLiteFields

\* The input keys a field of the record is taken from.
Feeds(f) ==
    CASE f = "title" -> {"title", "name"}
      [] f = "database_name" -> {"name", "title"}
      [] f = "database_type" -> {"type"}
      [] f = "use_ssl" -> {"useSSL"}
      [] OTHER -> {f}

\* C4: get_new_datasource returns a record for every input without raising, and a
\* field whose input keys are all absent stays unset.
C4_NeverRejectsAbsentStayUnset ==
    op = "get_new_datasource" =>
        /\ ~raised
        /\ \A f \in Fields : (\A k \in Feeds(f) : db[k] = None) => ds.val[f] = None

\* C5: submit_survey_responses never raises to its caller.
C5_SurveyNeverRaises == op = "submit_survey_responses" => ~raised

\* C6: a second import_demo_queries_and_dashboards call, made right after a first
\* one that found no "eCommerce" dashboard and created records, creates nothing,
\* also when the first call stopped on an exception.
C6_SecondImportCreatesNothing ==
    [][(/\ op = "import_demo_queries_and_dashboards"
        /\ ~demo_dashboard_exists
        /\ created > 0
        /\ op' = "import_demo_queries_and_dashboards")
       => queries' = queries /\ dashboards' = dashboards]_vars

\* C7: type SQLite with a name n and no title gives title n and database_name n.
C7_SQLiteTitleFallback ==
    (op = "get_new_datasource" /\ db.type = "SQLite" /\ db.name # None /\ db.title = None)
        => ds.val.title = db.name /\ ds.val.database_name = db.name

C7_Witness ==
    /\ op = "get_new_datasource"
    /\ db.type = "SQLite"
    /\ db.name = "mydb"
    /\ db.title = None
    /\ ds.val.title = "mydb"

\* C8 as stated: type SQLite with a title t and no name gives title t and
\* database_name scrub(t); with a name present database_name is the name.
C8_SQLiteNameFallbackAnyTitle ==
    (op = "get_new_datasource" /\ db.type = "SQLite") =>
        /\ (db.title # None /\ db.name = None) =>
               /\ ds.val.title = db.title
               /\ ds.val.database_name = Scrub(db.title)
        /\ db.name # None => ds.val.database_name = db.name

\* C8 as amended: type SQLite with a non-empty title t and no name gives title t
\* and database_name scrub(t) ("My DB" gives "my_db"); with a non-empty name
\* present database_name is the name.
C8_SQLiteNameFallbackNonEmpty ==
    (op = "get_new_datasource" /\ db.type = "SQLite") =>
        /\ (Truthy(db.title) /\ db.name = None) =>
               /\ ds.val.title = db.title
               /\ ds.val.database_name = Scrub(db.title)
               /\ db.title \in {"My DB", "my-db"} => ds.val.database_name = "my_db"
        /\ Truthy(db.name) => ds.val.database_name = db.name

C8_Witness ==
    /\ op = "get_new_datasource"
    /\ db.type = "SQLite"
    /\ db.title = "My DB"
    /\ db.name = None
    /\ ds.val.database_name = "my_db"

\* C9: a test_database_connection call leaves the stored Data Source records, the
\* Settings flag and the enqueued sync jobs as they were, and either returns the
\* successful test or raises.
C9_TestPersistsNothing ==
    [][op' = "test_database_connection" =>
          /\ UNCHANGED <<data_sources, site_db_title, settings_setup_complete, sync_jobs>>
          /\ (raised' \/ ret' = "True")
          /\ ~(raised' /\ ret' = "True")]_vars

C9_Witness ==
    op = "test_database_connection" /\ raised /\ Len(data_sources) > 0 /\ sync_jobs # {}

\* C10: every enqueued sync job names a data source that was saved, and an
\* add_database call that raises enqueues no job and stores nothing.
C10_SyncOnlyAfterSave ==
    [][/\ \A job \in sync_jobs' : job \in DOMAIN data_sources'
       /\ (op' = "add_database" /\ raised') =>
              sync_jobs' = sync_jobs /\ data_sources' = data_sources]_vars

C10_Witness ==
    /\ op = "add_database"
    /\ raised
    /\ sync_jobs = {1}
    /\ Len(data_sources) = 1

====
